---- MODULE Spec2Model ----
(***************************************************************************)
(* One invocation of scripts/bokeh-phy.py: main() runs validate_inputs,    *)
(* load_data, the colour mapping choice, create_plot and save_plot inside  *)
(* one try block and turns every exception into exit code 1.               *)
(* The collaborators (bt.loadNewick, pd.read_csv, json.load,               *)
(* bt_bokeh.plotTree, bokeh save/show) are modelled by their outcome,      *)
(* drawn from small sets when they are called.                             *)
(***************************************************************************)
EXTENDS Integers, Sequences, FiniteSets, TLC

\* ------------------------------------------------------------------ bounds
MaxHover == 2
MaxLeaves == 3
MaxInterrupts == 2

\* ------------------------------------------------------------ value spaces
None == "<None>"

ColumnNames == {"taxon", "country", "species"}

ColorColumns == {"taxon", "species"}

HoverLists == UNION {[1..n -> ColumnNames] : n \in 1..MaxHover}

CustomColorArgs == {None, "", "colors.json"}

OutputPaths == {"phylo_tree.html", "out/tree.html"}

TreeFileStates == {"missing", "unreadable", "empty", "content"}

MetadataFileStates == {"missing", "empty", "content"}

\* the value bound to a name by "from bokeh.plotting import output_file"
BokehOutputFile == "<function output_file>"

\* ---------------------------------------------------------------- helpers
Exc(type, msg, file, cause, cols) ==
    [type |-> type, msg |-> msg, file |-> file, cause |-> cause, cols |-> cols]

NoExc == Exc("", "", "", "", <<>>)

Msg(kind, text, file, cause, cols, n) ==
    [kind |-> kind, text |-> text, file |-> file, cause |-> cause,
     cols |-> cols, n |-> n]

Range(s) == {s[i] : i \in 1..Len(s)}

EmptyMap == [l \in {} |-> ""]

\* get_default_colors: labels to entries of px.colors.qualitative.Vivid
get_default_colors ==
    [l \in {"gambiae", "coluzzii", "arabiensis", "merus", "melas",
            "quadriannulatus", "fontenillei", "gcx1", "gcx2", "gcx3",
            "gcx4", "bissau", "pwani", "unassigned"} |->
        CASE l = "gambiae" -> "Vivid[1]"
          [] l = "coluzzii" -> "Vivid[0]"
          [] l = "arabiensis" -> "Vivid[2]"
          [] l = "merus" -> "Vivid[3]"
          [] l = "melas" -> "Vivid[4]"
          [] l = "quadriannulatus" -> "Vivid[5]"
          [] l = "fontenillei" -> "Vivid[6]"
          [] l = "gcx1" -> "Vivid[7]"
          [] l = "gcx2" -> "Vivid[8]"
          [] l = "gcx3" -> "Vivid[9]"
          [] l = "gcx4" -> "Vivid[10]"
          [] l = "bissau" -> "Vivid[7]"
          [] l = "pwani" -> "Vivid[9]"
          [] l = "unassigned" -> "black"]

\* what json.load can return for a custom colour file that loads
CustomMaps ==
    {EmptyMap,
     [l \in {"gambiae"} |-> "#ff0000"],
     [l \in {"gambiae", "novel"} |-> IF l = "gambiae" THEN "red" ELSE "blue"]}

\* open(color_file) / json.load(f): the mapping, or the exception raised
JsonOutcomes ==
    {[ok |-> TRUE, cause |-> "", map |-> m] : m \in CustomMaps}
    \cup {[ok |-> FALSE, cause |-> c, map |-> EmptyMap] :
             c \in {"FileNotFoundError", "JSONDecodeError"}}

\* pd.read_csv(metadata_file, sep=sep): the columns of the table, or a failure
ColumnLists ==
    {<<"taxon,country">>, <<"taxon">>, <<"taxon", "country">>,
     <<"sample", "species">>, <<"taxon", "country", "species">>}

ReadCsvOutcomes(metadata_file) ==
    {[ok |-> FALSE, columns |-> <<>>]}
    \cup (IF metadata_file = "content"
          THEN {[ok |-> TRUE, columns |-> c] : c \in ColumnLists}
          ELSE {})

\* ------------------------------------------------------------------ state
VARIABLES
    argv,        \* the command line as given: what parse_arguments returned
    args,        \* the argparse namespace (hover_columns is reassigned)
    fs,          \* the input files, and the directories and files written
    pc,          \* position of main
    tree,        \* result of bt.loadNewick
    metadata,    \* local "metadata" of load_data (the columns of the table)
    sepIdx,      \* position of the "for sep in" loop
    attempts,    \* the read_csv calls made so far and how each ended
    json_file,   \* what open(color_file) / json.load(f) did, once called
    color_map,   \* local "color_map" of main
    plot,        \* local "plot" of main: what was handed to plotTree
    out,         \* the messages printed
    raised,      \* the exception that reached main's except clauses
    exitCode,    \* process exit code, None while running
    calls,       \* number of calls made to each collaborator
    stages,      \* the stages entered so far, in order
    interrupts   \* KeyboardInterrupts delivered so far

vars == <<argv, args, fs, pc, tree, metadata, sepIdx, attempts, json_file,
          color_map, plot, out, raised, exitCode, calls, stages, interrupts>>

\* --------------------------------------------------------- pure functions
\* os.path.exists
exists(file) == file # "missing"

\* validate_inputs without the existence check of the metadata path
validate_inputs_tree_only(tree_file, metadata_file) ==
    IF ~exists(tree_file)
    THEN Exc("FileNotFoundError", "Tree file not found", "tree", "", <<>>)
    ELSE IF tree_file = "unreadable"
    THEN Exc("ValueError", "Cannot read tree file", "tree", "OSError", <<>>)
    ELSE IF tree_file = "empty"
    THEN Exc("ValueError", "Cannot read tree file", "tree",
             "ValueError: Tree file is empty", <<>>)
    ELSE NoExc

\* validate_inputs: the exception it raises, NoExc when it returns
validate_inputs(tree_file, metadata_file) ==
    IF ~exists(tree_file)
    THEN Exc("FileNotFoundError", "Tree file not found", "tree", "", <<>>)
    ELSE IF ~exists(metadata_file)
    THEN Exc("FileNotFoundError", "Metadata file not found", "metadata", "", <<>>)
    ELSE IF tree_file = "unreadable"
    THEN Exc("ValueError", "Cannot read tree file", "tree", "OSError", <<>>)
    ELSE IF tree_file = "empty"
    THEN Exc("ValueError", "Cannot read tree file", "tree",
             "ValueError: Tree file is empty", <<>>)
    ELSE NoExc

\* the candidate separators of load_data, in the order tried
Separators == <<"\t", ",", " ">>

\* Accepts with the test "> 0": a one-column table ends the loop as well
AcceptsAnyTable(columns) == Len(columns) > 0

\* "if len(metadata.columns) > 1: break"
Accepts(columns) == Len(columns) > 1

\* [col for col in hover_columns if col in metadata.columns]
FilterHover(hover_columns, columns) ==
    SelectSeq(hover_columns, LAMBDA col : col \in Range(columns))

\* [col for col in hover_columns if col not in metadata.columns]
MissingHover(hover_columns, columns) ==
    SelectSeq(hover_columns, LAMBDA col : col \notin Range(columns))

\* ReconcileHover without the filtering of line 230
ReconcileHoverUnfiltered(hover_columns, columns) == hover_columns

\* the hover list load_data returns
ReconcileHover(hover_columns, columns) ==
    IF MissingHover(hover_columns, columns) # <<>>
    THEN FilterHover(hover_columns, columns)
    ELSE hover_columns

\* Python truthiness of args.custom_colors ("if args.custom_colors:")
Truthy(v) == v # None /\ v # ""

\* load_custom_colors laying a loaded mapping over the default one
load_custom_colors_merged(color_file, outcome) ==
    IF outcome.ok
    THEN [map |-> [l \in DOMAIN outcome.map \cup DOMAIN get_default_colors |->
                      IF l \in DOMAIN outcome.map THEN outcome.map[l]
                      ELSE get_default_colors[l]],
          printed |-> <<>>]
    ELSE [map |-> get_default_colors,
          printed |-> <<Msg("warning", "Could not load custom colors",
                            color_file, outcome.cause, <<>>, 0)>>]

\* load_custom_colors: the mapping returned and the warning printed, for an
\* outcome of open(color_file) / json.load(f)
load_custom_colors(color_file, outcome) ==
    IF outcome.ok
    THEN [map |-> outcome.map, printed |-> <<>>]
    ELSE [map |-> get_default_colors,
          printed |-> <<Msg("warning", "Could not load custom colors",
                            color_file, outcome.cause, <<>>, 0)>>]

\* except clauses around each position, innermost first, before those of main
EnclosingClauses(p) ==
    CASE p = "validate_inputs" -> <<"Exception">>
      [] p = "loadNewick" -> <<"Exception">>
      [] p = "for_sep" -> <<"Exception">>
      [] p = "read_csv" -> <<"bare", "Exception">>
      [] p = "colors" -> <<"Exception">>
      [] p = "create_plot" -> <<"Exception">>
      [] OTHER -> <<>>

\* does an except clause catch an exception of this type
Catches(clause, type) ==
    \/ clause = "bare"
    \/ clause = "Exception" /\ type # "KeyboardInterrupt"
    \/ clause = type

\* the innermost clause that catches, main's two clauses last
CatchingClause(p, type) ==
    LET chain == EnclosingClauses(p) \o <<"KeyboardInterrupt", "Exception">>
        i == CHOOSE i \in 1..Len(chain) :
                 /\ Catches(chain[i], type)
                 /\ \A j \in 1..(i - 1) : ~Catches(chain[j], type)
    IN chain[i]

\* Path(output_file) needs a str or os.PathLike
IsPathLike(v) == v \in OutputPaths

\* Path(output_file).parent
Parent(path) == IF path = "out/tree.html" THEN "out" ELSE "."

\* locals of save_plot after "from bokeh.plotting import output_file, save, show"
SavePlotLocals(plot_arg, output_file, show_plot) ==
    [plot |-> plot_arg, output_file |-> BokehOutputFile, show_plot |-> show_plot]

\* check_color_column with a message that leaves out the available columns
check_color_column_no_listing(color_column, columns) ==
    IF color_column \notin Range(columns)
    THEN Exc("ValueError", "Color column not found in metadata", "", "", <<>>)
    ELSE NoExc

\* lines 222-224: the exception load_data raises for the colour column,
\* NoExc when the column is there
check_color_column(color_column, columns) ==
    IF color_column \notin Range(columns)
    THEN Exc("ValueError", "Color column not found in metadata", "", "",
             columns)
    ELSE NoExc

\* AfterStage with the metadata read before the tree
AfterStageMetadataFirst(p) ==
    CASE p = "validate_inputs" -> "for_sep"
      [] p = "for_sep" -> "read_csv"
      [] p = "read_csv" -> "loadNewick"
      [] p = "loadNewick" -> "report"
      [] p = "report" -> "color_column"
      [] p = "color_column" -> "hover_columns"
      [] p = "hover_columns" -> "colors"
      [] p = "colors" -> "create_plot"
      [] p = "create_plot" -> "save_plot"
      [] OTHER -> "exited"

\* the statement order of main and load_data: where control goes when the
\* statements at position p complete without raising
AfterStage(p) ==
    CASE p = "validate_inputs" -> "loadNewick"
      [] p = "loadNewick" -> "for_sep"
      [] p = "for_sep" -> "read_csv"
      [] p = "read_csv" -> "report"
      [] p = "report" -> "color_column"
      [] p = "color_column" -> "hover_columns"
      [] p = "hover_columns" -> "colors"
      [] p = "colors" -> "create_plot"
      [] p = "create_plot" -> "save_plot"
      [] OTHER -> "exited"

\* ------------------------------------------------------------------- Init
Init ==
    /\ args \in [color_column : ColorColumns,
                 hover_columns : HoverLists,
                 custom_colors : CustomColorArgs,
                 show_plot : BOOLEAN,
                 output : OutputPaths]
    /\ argv = args
    /\ fs \in [tree : TreeFileStates,
               metadata : MetadataFileStates,
               dirs : {{"."}},
               files : {{}}]
    /\ pc = "validate_inputs"
    /\ tree = [bound |-> FALSE, tips |-> 0]
    /\ metadata = [bound |-> FALSE, columns |-> <<>>]
    /\ sepIdx = 1
    /\ attempts = <<>>
    /\ json_file = [called |-> FALSE, ok |-> FALSE, cause |-> "",
                    map |-> EmptyMap]
    /\ color_map = [bound |-> FALSE, map |-> EmptyMap]
    /\ plot = [bound |-> FALSE, hover_data |-> <<>>, color_column |-> "",
               color_map |-> EmptyMap]
    /\ out = <<>>
    /\ raised = NoExc
    /\ exitCode = None
    /\ calls = [loadNewick |-> 0, read_csv |-> 0, plotTree |-> 0,
                mkdir |-> 0, save |-> 0, show |-> 0]
    /\ stages = <<>>
    /\ interrupts = 0

\* --------------------------------------------------- main's except clauses
\* MainExcept without the sys.exit(1): main returns after printing
MainExceptNoExit(e) ==
    /\ out' = Append(out,
                IF e.type = "KeyboardInterrupt"
                THEN Msg("error", "Interrupted by user", "", "", <<>>, 0)
                ELSE Msg("error", e.msg, e.file, e.cause, e.cols, 0))
    /\ raised' = e
    /\ exitCode' = 0
    /\ pc' = "exited"

\* "except KeyboardInterrupt" / "except Exception": one message, sys.exit(1)
MainExcept(e) ==
    /\ out' = Append(out,
                IF e.type = "KeyboardInterrupt"
                THEN Msg("error", "Interrupted by user", "", "", <<>>, 0)
                ELSE Msg("error", e.msg, e.file, e.cause, e.cols, 0))
    /\ raised' = e
    /\ exitCode' = 1
    /\ pc' = "exited"

\* ---------------------------------------------------------------- actions
\* main line 290: validate_inputs(args.tree, args.metadata)
ValidateInputs ==
    /\ pc = "validate_inputs"
    /\ stages' = Append(stages, "validate_inputs")
    /\ LET e == validate_inputs(fs.tree, fs.metadata)
       IN IF e = NoExc
          THEN pc' = AfterStage(pc) /\ UNCHANGED <<out, raised, exitCode>>
          ELSE MainExcept(e)
    /\ UNCHANGED <<argv, args, fs, tree, metadata, sepIdx, attempts,
                   json_file, color_map, plot, calls, interrupts>>

\* load_data lines 196-200: tree = bt.loadNewick(tree_file)
LoadNewick ==
    /\ pc = "loadNewick"
    /\ stages' = Append(stages, "loadNewick")
    /\ calls' = [calls EXCEPT !.loadNewick = @ + 1]
    /\ \E tips \in 0..MaxLeaves :
          IF tips = 0
          THEN /\ MainExcept(Exc("ValueError", "Error loading tree", "tree",
                                 "loadNewick failed", <<>>))
               /\ UNCHANGED tree
          ELSE /\ tree' = [bound |-> TRUE, tips |-> tips]
               /\ pc' = AfterStage(pc)
               /\ UNCHANGED <<out, raised, exitCode>>
    /\ UNCHANGED <<argv, args, fs, metadata, sepIdx, attempts, json_file,
                   color_map, plot, interrupts>>

\* load_data lines 202-205 and 212-216: the head of "for sep in [...]" and
\* its else clause
ForSep ==
    /\ pc = "for_sep"
    /\ stages' = IF attempts = <<>> THEN Append(stages, "read_csv") ELSE stages
    /\ IF sepIdx <= Len(Separators)
       THEN pc' = "read_csv" /\ UNCHANGED <<out, raised, exitCode>>
       ELSE MainExcept(Exc("ValueError", "Error loading metadata", "metadata",
                "Could not parse metadata file with any common separator",
                <<>>))
    /\ UNCHANGED <<argv, args, fs, tree, metadata, sepIdx, attempts,
                   json_file, color_map, plot, calls, interrupts>>

\* load_data lines 206-211: one pass of the loop body
ReadCsv ==
    /\ pc = "read_csv"
    /\ calls' = [calls EXCEPT !.read_csv = @ + 1]
    /\ \E r \in ReadCsvOutcomes(fs.metadata) :
          /\ attempts' = Append(attempts,
                 [sep |-> Separators[sepIdx], ok |-> r.ok,
                  columns |-> r.columns, interrupted |-> FALSE])
          /\ IF r.ok
             THEN /\ metadata' = [bound |-> TRUE, columns |-> r.columns]
                  /\ IF Accepts(r.columns)
                     THEN pc' = AfterStage(pc) /\ UNCHANGED sepIdx
                     ELSE pc' = "for_sep" /\ sepIdx' = sepIdx + 1
             ELSE /\ pc' = "for_sep"
                  /\ sepIdx' = sepIdx + 1
                  /\ UNCHANGED metadata
    /\ UNCHANGED <<argv, args, fs, tree, json_file, color_map, plot, out,
                   raised, exitCode, stages, interrupts>>

\* load_data lines 218-219: the tip and sample counts are printed
Report ==
    /\ pc = "report"
    /\ stages' = Append(stages, "report")
    /\ out' = Append(out, Msg("info", "Loaded tree with tips", "", "", <<>>,
                              tree.tips))
    /\ pc' = AfterStage(pc)
    /\ UNCHANGED <<argv, args, fs, tree, metadata, sepIdx, attempts,
                   json_file, color_map, plot, raised, exitCode, calls,
                   interrupts>>

\* load_data lines 221-224: the colour column must be a metadata column
ColorColumn ==
    /\ pc = "color_column"
    /\ stages' = Append(stages, "schema")
    /\ LET e == check_color_column(args.color_column, metadata.columns)
       IN IF e = NoExc
          THEN pc' = AfterStage(pc) /\ UNCHANGED <<out, raised, exitCode>>
          ELSE MainExcept(e)
    /\ UNCHANGED <<argv, args, fs, tree, metadata, sepIdx, attempts,
                   json_file, color_map, plot, calls, interrupts>>

\* load_data lines 226-232 and main line 298
HoverColumns ==
    /\ pc = "hover_columns"
    /\ LET missing_hover == MissingHover(args.hover_columns, metadata.columns)
       IN /\ out' = IF missing_hover # <<>>
                    THEN Append(out, Msg("warning",
                             "Hover columns not found in metadata", "", "",
                             missing_hover, 0))
                    ELSE out
          /\ args' = [args EXCEPT !.hover_columns =
                         ReconcileHover(args.hover_columns, metadata.columns)]
    /\ pc' = AfterStage(pc)
    /\ UNCHANGED <<argv, fs, tree, metadata, sepIdx, attempts, json_file,
                   color_map, plot, raised, exitCode, calls, stages,
                   interrupts>>

\* main lines 300-304
Colors ==
    /\ pc = "colors"
    /\ stages' = Append(stages, "colors")
    /\ IF Truthy(args.custom_colors)
       THEN \E o \in JsonOutcomes :
               LET r == load_custom_colors(args.custom_colors, o)
               IN /\ json_file' = [called |-> TRUE, ok |-> o.ok,
                                   cause |-> o.cause, map |-> o.map]
                  /\ color_map' = [bound |-> TRUE, map |-> r.map]
                  /\ out' = out \o r.printed
       ELSE /\ color_map' = [bound |-> TRUE, map |-> get_default_colors]
            /\ UNCHANGED <<json_file, out>>
    /\ pc' = AfterStage(pc)
    /\ UNCHANGED <<argv, args, fs, tree, metadata, sepIdx, attempts, plot,
                   raised, exitCode, calls, interrupts>>

\* create_plot, main line 307
CreatePlot ==
    /\ pc = "create_plot"
    /\ stages' = Append(stages, "create_plot")
    /\ calls' = [calls EXCEPT !.plotTree = @ + 1]
    /\ \E ok \in BOOLEAN :
          IF ok
          THEN /\ plot' = [bound |-> TRUE,
                           hover_data |-> args.hover_columns,
                           color_column |-> args.color_column,
                           color_map |-> color_map.map]
               /\ pc' = AfterStage(pc)
               /\ UNCHANGED <<out, raised, exitCode>>
          ELSE /\ MainExcept(Exc("RuntimeError", "Error creating plot", "",
                                 "plotTree failed", <<>>))
               /\ UNCHANGED plot
    /\ UNCHANGED <<argv, args, fs, tree, metadata, sepIdx, attempts,
                   json_file, color_map, interrupts>>

\* save_plot, main line 310, and the normal end of main
SavePlot ==
    /\ pc = "save_plot"
    /\ stages' = Append(stages, "save_plot")
    /\ LET l == SavePlotLocals(plot, args.output, args.show_plot)
       IN IF ~IsPathLike(l.output_file)
          THEN /\ MainExcept(Exc("TypeError",
                      "expected str, bytes or os.PathLike object", "", "",
                      <<>>))
               /\ UNCHANGED <<fs, calls>>
          ELSE /\ fs' = [fs EXCEPT
                           !.dirs = @ \cup {Parent(l.output_file)},
                           !.files = IF l.show_plot THEN @
                                     ELSE @ \cup {l.output_file}]
               /\ calls' = [calls EXCEPT
                              !.mkdir = @ + 1,
                              !.show = IF l.show_plot THEN @ + 1 ELSE @,
                              !.save = IF l.show_plot THEN @ ELSE @ + 1]
               /\ out' = Append(out, Msg("info", "Plot saved successfully",
                                         l.output_file, "", <<>>, 0))
               /\ exitCode' = 0
               /\ pc' = "exited"
               /\ UNCHANGED raised
    /\ UNCHANGED <<argv, args, tree, metadata, sepIdx, attempts, json_file,
                   color_map, plot, interrupts>>

\* Ctrl-C while main is inside its try block: KeyboardInterrupt is raised at
\* the current position and goes to the innermost clause that catches it
KeyboardInterrupt ==
    /\ pc # "exited"
    /\ interrupts < MaxInterrupts
    /\ interrupts' = interrupts + 1
    /\ IF CatchingClause(pc, "KeyboardInterrupt") = "bare"
       THEN \* lines 210-211: "except: continue"
            /\ calls' = [calls EXCEPT !.read_csv = @ + 1]
            /\ attempts' = Append(attempts,
                   [sep |-> Separators[sepIdx], ok |-> FALSE,
                    columns |-> <<>>, interrupted |-> TRUE])
            /\ sepIdx' = sepIdx + 1
            /\ pc' = "for_sep"
            /\ UNCHANGED <<out, raised, exitCode>>
       ELSE /\ MainExcept(Exc("KeyboardInterrupt", "", "", "", <<>>))
            /\ UNCHANGED <<calls, attempts, sepIdx>>
    /\ UNCHANGED <<argv, args, fs, tree, metadata, json_file, color_map,
                   plot, stages>>

Next ==
    \/ ValidateInputs
    \/ LoadNewick
    \/ ForSep
    \/ ReadCsv
    \/ Report
    \/ ColorColumn
    \/ HoverColumns
    \/ Colors
    \/ CreatePlot
    \/ SavePlot
    \/ KeyboardInterrupt

Spec == Init /\ [][Next]_vars

\* ----------------------------------------------------------------- claims
Last(s) == s[Len(s)]

IsPrefix(s, t) == Len(s) <= Len(t) /\ \A i \in 1..Len(s) : s[i] = t[i]

Entered(stage) == stage \in Range(stages)

Printed(kind) == {i \in 1..Len(out) : out[i].kind = kind}

\* the elements of list that are in the set keep, in the order of list
RECURSIVE OrderedRestriction(_, _)
OrderedRestriction(list, keep) ==
    IF list = <<>> THEN <<>>
    ELSE (IF Head(list) \in keep THEN <<Head(list)>> ELSE <<>>)
         \o OrderedRestriction(Tail(list), keep)

Qualifies(a) == a.ok /\ Len(a.columns) >= 2

NoneQualifies == \A i \in 1..Len(attempts) : ~Qualifies(attempts[i])

\* C1: the separators are tried in the order tab, comma, space; the table
\* that leaves the loop is the parse of the first attempt that succeeded
\* with at least two columns; when all three attempts fail or give one
\* column, loading fails with a ValueError and no table is returned; every
\* table that leaves load_data has at least two columns.
C1_FirstQualifyingSeparator ==
    /\ Len(attempts) <= 3
    /\ \A i \in 1..Len(attempts) : attempts[i].sep = <<"\t", ",", " ">>[i]
    /\ \A i \in 1..(Len(attempts) - 1) : ~Qualifies(attempts[i])
    /\ (pc = "report" \/ Entered("report")) =>
          /\ attempts # <<>>
          /\ Qualifies(Last(attempts))
          /\ metadata = [bound |-> TRUE, columns |-> Last(attempts).columns]
    /\ (Len(attempts) = 3 /\ NoneQualifies) =>
          /\ pc \in {"for_sep", "exited"}
          /\ ~Entered("report")
          /\ pc = "exited" =>
                /\ exitCode = 1
                /\ raised.type \in {"ValueError", "KeyboardInterrupt"}
                /\ raised.type = "ValueError" =>
                      raised.msg = "Error loading metadata"
    /\ (Entered("schema") \/ plot.bound) => Len(metadata.columns) >= 2

C1_Witness ==
    /\ pc = "color_column"
    /\ Len(attempts) = 2
    /\ attempts[1].ok /\ Len(attempts[1].columns) = 1
    /\ Len(metadata.columns) = 2

\* C2: the hover list load_data returns, which is the one handed to the
\* plotting call, is the requested list restricted to the metadata columns
\* in the requested order; missing hover columns give one warning naming
\* them and the run goes on to the colour mapping.
C2_HoverOrderedIntersection ==
    LET wanted == OrderedRestriction(argv.hover_columns, Range(metadata.columns))
        missing == OrderedRestriction(argv.hover_columns,
                       ColumnNames \ Range(metadata.columns))
        warnings == {i \in Printed("warning") :
                        out[i].text = "Hover columns not found in metadata"}
    IN /\ pc \in {"colors", "create_plot", "save_plot"} =>
             /\ args.hover_columns = wanted
             /\ exitCode = None /\ raised = NoExc
             /\ IF missing = <<>> THEN warnings = {}
                ELSE \E i \in warnings :
                        warnings = {i} /\ out[i].cols = missing
       /\ plot.bound => plot.hover_data = wanted
       /\ (pc = "exited" /\ Entered("schema")
           /\ argv.color_column \in Range(metadata.columns)) =>
             Entered("colors") \/ raised.type = "KeyboardInterrupt"

C2_Witness ==
    /\ plot.bound
    /\ Len(argv.hover_columns) = 2
    /\ Len(plot.hover_data) = 1
    /\ \E i \in Printed("warning") : Len(out[i].cols) = 1

\* C3: when the colour column is not a metadata column, load_data raises a
\* ValueError whose message lists the available columns, the process exits
\* with code 1, and no colour mapping is chosen, no plot is built and
\* nothing is written.
C3_MissingColorColumnIsFatal ==
    (Entered("schema") /\ argv.color_column \notin Range(metadata.columns)) =>
        /\ pc = "exited"
        /\ exitCode = 1
        /\ raised.type = "ValueError"
        /\ raised.msg = "Color column not found in metadata"
        /\ raised.cols = metadata.columns
        /\ Cardinality(Printed("error")) = 1
        /\ Last(out).kind = "error" /\ Last(out).cols = metadata.columns
        /\ ~color_map.bound /\ ~json_file.called /\ ~plot.bound
        /\ calls.plotTree = 0 /\ calls.mkdir = 0
        /\ calls.save = 0 /\ calls.show = 0
        /\ ~Entered("colors") /\ ~Entered("create_plot")
        /\ ~Entered("save_plot")

C3_Witness ==
    /\ Entered("schema")
    /\ argv.color_column = "species"
    /\ metadata.columns = <<"taxon", "country">>
    /\ raised.cols = <<"taxon", "country">>

ColorWarnings ==
    {i \in Printed("warning") : out[i].text = "Could not load custom colors"}

\* what C4 says of a run in which --custom-colors was given
CustomColorsOutcome ==
    /\ json_file.called
    /\ IF json_file.ok
       THEN color_map.map = json_file.map /\ ColorWarnings = {}
       ELSE /\ color_map.map = get_default_colors
            /\ \E i \in ColorWarnings :
                  /\ ColorWarnings = {i}
                  /\ out[i].file = argv.custom_colors
                  /\ out[i].cause = json_file.cause

\* C4 as stated: without --custom-colors the mapping is the default one;
\* with --custom-colors a file that does not load gives a warning naming
\* the file and the cause and the default mapping, and a file that loads
\* gives its contents.
C4_AsStated ==
    color_map.bound =>
        IF argv.custom_colors = None
        THEN color_map.map = get_default_colors /\ ~json_file.called
        ELSE CustomColorsOutcome

\* C4 amended: the same, with an empty --custom-colors value treated as an
\* absent one: the default mapping, no file opened and no warning.
C4_OneColorMapping ==
    /\ color_map.bound =>
          IF argv.custom_colors \in {None, ""}
          THEN /\ color_map.map = get_default_colors
               /\ ~json_file.called
               /\ ColorWarnings = {}
          ELSE CustomColorsOutcome
    /\ plot.bound => color_map.bound /\ plot.color_map = color_map.map
    /\ ~color_map.bound => ~json_file.called /\ ColorWarnings = {}

C4_Witness ==
    /\ plot.bound
    /\ json_file.called /\ json_file.ok
    /\ "novel" \in DOMAIN plot.color_map
    /\ "unassigned" \notin DOMAIN plot.color_map

\* C5: once save_plot has run, the parent directory of the path given as
\* --output exists, and exactly one of show and save was called: show when
\* --show-plot is set, otherwise save, which leaves the file at that path.
C5_AsStated ==
    Entered("save_plot") =>
        /\ calls.mkdir = 1
        /\ Parent(argv.output) \in fs.dirs
        /\ calls.show + calls.save = 1
        /\ argv.show_plot => calls.show = 1
        /\ ~argv.show_plot => calls.save = 1 /\ argv.output \in fs.files

\* C6: a run that was not interrupted, whose inputs loaded and whose plot
\* was built, with --show-plot off, ends with exit code 0 and the plot at
\* the --output path.
C6_AsStated ==
    (pc = "exited" /\ interrupts = 0 /\ plot.bound /\ ~argv.show_plot) =>
        exitCode = 0 /\ argv.output \in fs.files

\* C7: validate_inputs raises FileNotFoundError when the tree or the
\* metadata path does not exist, ValueError when both exist and the tree
\* file cannot be read or is empty, returns otherwise (an empty metadata
\* file included), and no parse is attempted before it has returned.
C7_ValidateInputs ==
    /\ pc = "validate_inputs" =>
          calls.loadNewick = 0 /\ calls.read_csv = 0 /\ attempts = <<>>
    /\ Entered("validate_inputs") =>
          IF fs.tree = "missing" \/ fs.metadata = "missing"
          THEN /\ raised.type = "FileNotFoundError"
               /\ raised.file = (IF fs.tree = "missing" THEN "tree"
                                 ELSE "metadata")
               /\ pc = "exited" /\ exitCode = 1
               /\ calls.loadNewick = 0 /\ calls.read_csv = 0
          ELSE IF fs.tree \in {"unreadable", "empty"}
          THEN /\ raised.type = "ValueError"
               /\ raised.msg = "Cannot read tree file"
               /\ pc = "exited" /\ exitCode = 1
               /\ calls.loadNewick = 0 /\ calls.read_csv = 0
          ELSE \/ pc = "loadNewick" /\ raised = NoExc /\ exitCode = None
               \/ Entered("loadNewick")
               \/ pc = "exited" /\ raised.type = "KeyboardInterrupt"

C7_Witness ==
    /\ pc = "loadNewick"
    /\ fs.tree = "content"
    /\ fs.metadata = "empty"
    /\ stages = <<"validate_inputs">>

\* C8: once a KeyboardInterrupt has been delivered, the run has ended with
\* exit code 1 through main's "except KeyboardInterrupt" clause.
C8_AsStated ==
    interrupts > 0 =>
        /\ pc = "exited"
        /\ exitCode = 1
        /\ raised.type = "KeyboardInterrupt"

\* the order of the stages C9 states
StatedOrder ==
    <<"validate_inputs", "read_csv", "loadNewick", "report", "schema",
      "colors", "create_plot", "save_plot">>

\* the order that holds: the tree is parsed before the metadata is read
ActualOrder ==
    <<"validate_inputs", "loadNewick", "read_csv", "report", "schema",
      "colors", "create_plot", "save_plot">>

TreeFailed == calls.loadNewick > 0 /\ ~tree.bound

\* C9 as stated: the stages are entered in the order validation, metadata,
\* tree, schema, colours, plot, output; when tree and metadata are both
\* unparseable the failure reported is the metadata one.
C9_AsStated ==
    /\ IsPrefix(stages, StatedOrder)
    /\ calls.loadNewick > 0 => metadata.bound
    /\ (pc = "exited" /\ fs.metadata = "empty" /\ TreeFailed) =>
          raised.msg = "Error loading metadata"

\* C9 amended: the stages are entered in the order validation, tree,
\* metadata, tip count report, schema, colours, plot, output; the tree
\* parser is called before the first read of the metadata, so when both are
\* unparseable the failure reported is the tree one; the tip count of the
\* parsed tree is printed once the metadata has been loaded.
C9_StageOrder ==
    /\ IsPrefix(stages, ActualOrder)
    /\ calls.read_csv > 0 => tree.bound /\ calls.loadNewick = 1
    /\ TreeFailed =>
          /\ pc = "exited" /\ exitCode = 1
          /\ raised.msg = "Error loading tree"
          /\ calls.read_csv = 0 /\ attempts = <<>>
    /\ \A i \in Printed("info") :
          out[i].text = "Loaded tree with tips" =>
             /\ out[i].n = tree.tips /\ tree.bound
             /\ metadata.bound /\ Len(metadata.columns) >= 2
    /\ Entered("report") =>
          \E i \in Printed("info") : out[i].text = "Loaded tree with tips"

C9_Witness ==
    /\ pc = "exited"
    /\ fs.metadata = "empty"
    /\ TreeFailed
    /\ raised.msg = "Error loading tree"

StageOf(e) ==
    CASE e.type = "FileNotFoundError" -> "validate_inputs"
      [] e.msg = "Cannot read tree file" -> "validate_inputs"
      [] e.msg = "Error loading tree" -> "loadNewick"
      [] e.msg = "Error loading metadata" -> "read_csv"
      [] e.msg = "Color column not found in metadata" -> "schema"
      [] e.type = "RuntimeError" -> "create_plot"
      [] OTHER -> "save_plot"

\* C10: the tree parser, the plotting call and save/show are each called at
\* most once; a run in which a stage raised has ended with exit code 1 and
\* exactly one error message, the stage that raised is the last one
\* entered, a failure of the plotting call reaches main as a RuntimeError,
\* and a run that ended before save_plot created no directory and no file.
C10_AbortWithoutRetry ==
    /\ calls.loadNewick <= 1
    /\ calls.plotTree <= 1
    /\ calls.save + calls.show <= 1
    /\ calls.mkdir <= 1
    /\ raised = NoExc =>
          Printed("error") = {} /\ (exitCode = None \/ pc = "exited")
    /\ raised # NoExc =>
          /\ pc = "exited"
          /\ exitCode = 1
          /\ Cardinality(Printed("error")) = 1
          /\ Last(out).kind = "error"
          /\ raised.type # "KeyboardInterrupt" =>
                /\ Last(stages) = StageOf(raised)
                /\ Last(out).text = raised.msg
    /\ (calls.plotTree = 1 /\ ~plot.bound /\ pc = "exited") =>
          raised.type \in {"RuntimeError", "KeyboardInterrupt"}
    /\ ~Entered("save_plot") =>
          /\ fs.dirs = {"."} /\ fs.files = {}
          /\ calls.mkdir = 0 /\ calls.save = 0 /\ calls.show = 0

C10_Witness ==
    /\ pc = "exited"
    /\ raised.type = "RuntimeError"
    /\ calls.plotTree = 1
    /\ Last(stages) = "create_plot"
    /\ argv.output = "out/tree.html"
    /\ "out" \notin fs.dirs

====
